---- MODULE Spec2Model ----
(***************************************************************************)
(* json_nav: path navigation over serde_json::Value with typed extraction. *)
(*                                                                         *)
(* The macro json_nav!{ root => p1 => ... => pn ; as K } expands to a      *)
(* chain of Result::and_then steps, one per path segment, followed by at   *)
(* most one coercion step.  The model runs one expansion at a time: Call   *)
(* fixes the segments and the requested kind, json_nav_internal_step       *)
(* performs the and_then of one segment, and json_nav_untyped /            *)
(* json_nav_typed produce the value of the macro call.                     *)
(***************************************************************************)
EXTENDS Integers, Sequences, FiniteSets, TLC

(***************************************************************************)
(* Bounds of the model.                                                    *)
(***************************************************************************)
MaxSegs == 3

(***************************************************************************)
(* serde_json::Value.  Every value is a record tagged by t.  A number      *)
(* keeps serde_json's representation N::{PosInt(u64), NegInt(i64),         *)
(* Float(f64)}.  A PosInt is hi * 2^63 + lo, so that hi = 1 is exactly the *)
(* range of u64 above i64::MAX; a Float is held in tenths.                 *)
(***************************************************************************)
Null == [t |-> "null"]
Bool(b) == [t |-> "bool", b |-> b]
String(s) == [t |-> "string", s |-> s]
PosInt(hi, lo) == [t |-> "number", n |-> "PosInt", hi |-> hi, lo |-> lo]
NegInt(lo) == [t |-> "number", n |-> "NegInt", lo |-> lo]
Float(tenths) == [t |-> "number", n |-> "Float", tenths |-> tenths]
Array(a) == [t |-> "array", a |-> a]
Object(o) == [t |-> "object", o |-> o]

(***************************************************************************)
(* Path segments: a string literal key or an integer literal index.        *)
(***************************************************************************)
Key(s) == [k |-> "key", s |-> s]
Idx(i) == [k |-> "idx", i |-> i]

(***************************************************************************)
(* Option and Result.                                                      *)
(***************************************************************************)
Some(v) == [some |-> TRUE, v |-> v]
None == [some |-> FALSE]
Ok(v) == [ok |-> TRUE, v |-> v]
Err(e) == [ok |-> FALSE, e |-> e]

Navigation(path) == [e |-> "Navigation", path |-> path]
TypeMismatch(expected) == [e |-> "TypeMismatch", expected |-> expected]

ok_or(opt, err) == IF opt.some THEN Ok(opt.v) ELSE Err(err)
and_then(r, F(_)) == IF r.ok THEN F(r.v) ELSE r

(***************************************************************************)
(* concat!: a string literal contributes its text, an integer literal its  *)
(* decimal digits, a char literal the char.                                *)
(***************************************************************************)
Digits == <<"0", "1", "2", "3", "4", "5", "6", "7", "8", "9">>

RECURSIVE decimal(_)
decimal(n) ==
    IF n < 10 THEN Digits[n + 1]
    ELSE decimal(n \div 10) \o Digits[(n % 10) + 1]

literal_text(p) == IF p.k = "key" THEN p.s ELSE decimal(p.i)

concat(base_path, path) == base_path \o "." \o literal_text(path)

(***************************************************************************)
(* serde_json::Value::get(index): a &str indexes objects only, a usize     *)
(* indexes arrays only; everything else is None.                           *)
(***************************************************************************)
\* faulty variant: a key bound to null is reported as absent
get_null_absent(v, p) ==
    IF p.k = "key"
    THEN IF v.t = "object" /\ p.s \in DOMAIN v.o /\ v.o[p.s].t # "null" THEN Some(v.o[p.s]) ELSE None
    ELSE IF v.t = "array" /\ p.i < Len(v.a) /\ v.a[p.i + 1].t # "null" THEN Some(v.a[p.i + 1]) ELSE None

\* faulty variant: the Index operator (x[path]) in place of get, which
\* yields Null where there is nothing to find
get_index_null(v, p) ==
    IF p.k = "key"
    THEN IF v.t = "object" /\ p.s \in DOMAIN v.o THEN Some(v.o[p.s]) ELSE Some(Null)
    ELSE IF v.t = "array" /\ p.i < Len(v.a) THEN Some(v.a[p.i + 1]) ELSE Some(Null)

get(v, p) ==
    IF p.k = "key"
    THEN IF v.t = "object" /\ p.s \in DOMAIN v.o THEN Some(v.o[p.s]) ELSE None
    ELSE IF v.t = "array" /\ p.i < Len(v.a) THEN Some(v.a[p.i + 1]) ELSE None

(***************************************************************************)
(* One segment of the walk (first arm of json_nav_internal).               *)
(***************************************************************************)
\* faulty variant: the error names $base_path without the failing segment
json_nav_internal_base_only(json, base_path, path) ==
    and_then(json, LAMBDA x : ok_or(get(x, path), Navigation(base_path)))

\* faulty variant: an earlier error is replaced by one for the current segment
json_nav_internal_overwrite(json, base_path, path) ==
    IF json.ok
    THEN ok_or(get(json.v, path), Navigation(concat(base_path, path)))
    ELSE Err(Navigation(concat(base_path, path)))

json_nav_internal(json, base_path, path) ==
    and_then(json, LAMBDA x : ok_or(get(x, path), Navigation(concat(base_path, path))))

(***************************************************************************)
(* serde_json's as_* views.  The coerced view is tagged with its Rust type.*)
(***************************************************************************)
as_object(v) == IF v.t = "object" THEN Some([ty |-> "Map", o |-> v.o]) ELSE None
as_array(v) == IF v.t = "array" THEN Some([ty |-> "Vec", a |-> v.a]) ELSE None
as_str(v) == IF v.t = "string" THEN Some([ty |-> "str", s |-> v.s]) ELSE None
as_bool(v) == IF v.t = "bool" THEN Some([ty |-> "bool", b |-> v.b]) ELSE None

\* faulty variant: a float is truncated to an integer
as_u64_truncating(v) ==
    IF v.t = "number" /\ v.n = "PosInt"
    THEN Some([ty |-> "u64", hi |-> v.hi, lo |-> v.lo])
    ELSE IF v.t = "number" /\ v.n = "Float" /\ v.tenths >= 0
    THEN Some([ty |-> "u64", hi |-> 0, lo |-> v.tenths \div 10])
    ELSE None

as_u64(v) ==
    IF v.t = "number" /\ v.n = "PosInt"
    THEN Some([ty |-> "u64", hi |-> v.hi, lo |-> v.lo])
    ELSE None

as_i64(v) ==
    IF v.t # "number" THEN None
    ELSE CASE v.n = "PosInt" -> IF v.hi = 0 THEN Some([ty |-> "i64", lo |-> v.lo]) ELSE None
           [] v.n = "NegInt" -> Some([ty |-> "i64", lo |-> v.lo])
           [] v.n = "Float" -> None

as_f64(v) ==
    IF v.t # "number" THEN None
    ELSE CASE v.n = "PosInt" -> Some([ty |-> "f64", hi |-> v.hi, tenths |-> v.lo * 10])
           [] v.n = "NegInt" -> Some([ty |-> "f64", hi |-> 0, tenths |-> v.lo * 10])
           [] v.n = "Float" -> Some([ty |-> "f64", hi |-> 0, tenths |-> v.tenths])

(***************************************************************************)
(* The typed arms of json_nav, applied to the result _x of the untyped     *)
(* call.                                                                   *)
(***************************************************************************)
json_nav_as_object(_x) == and_then(_x, LAMBDA x : ok_or(as_object(x), TypeMismatch("object")))
json_nav_as_array(_x) == and_then(_x, LAMBDA x : ok_or(as_array(x), TypeMismatch("array")))
\* faulty variant: every error of the walk is turned into a type mismatch
json_nav_as_str_any_err(_x) ==
    IF _x.ok THEN ok_or(as_str(_x.v), TypeMismatch("str")) ELSE Err(TypeMismatch("str"))
json_nav_as_str(_x) == and_then(_x, LAMBDA x : ok_or(as_str(x), TypeMismatch("str")))
json_nav_as_bool(_x) == and_then(_x, LAMBDA x : ok_or(as_bool(x), TypeMismatch("bool")))
json_nav_as_u64(_x) == and_then(_x, LAMBDA x : ok_or(as_u64(x), TypeMismatch("u64")))
\* faulty variant: the i64 arm names the kind of the u64 arm
json_nav_as_i64_named_u64(_x) == and_then(_x, LAMBDA x : ok_or(as_i64(x), TypeMismatch("u64")))
json_nav_as_i64(_x) == and_then(_x, LAMBDA x : ok_or(as_i64(x), TypeMismatch("i64")))
json_nav_as_f64(_x) == and_then(_x, LAMBDA x : ok_or(as_f64(x), TypeMismatch("f64")))

Kinds == {"object", "array", "str", "bool", "u64", "i64", "f64"}
Untyped == "none"

json_nav_as(K, _x) ==
    CASE K = "object" -> json_nav_as_object(_x)
      [] K = "array" -> json_nav_as_array(_x)
      [] K = "str" -> json_nav_as_str(_x)
      [] K = "bool" -> json_nav_as_bool(_x)
      [] K = "u64" -> json_nav_as_u64(_x)
      [] K = "i64" -> json_nav_as_i64(_x)
      [] K = "f64" -> json_nav_as_f64(_x)

(***************************************************************************)
(* Inputs: the root expressions a call site may name, each with the value  *)
(* it is bound to, and the literals a path may be made of.                 *)
(***************************************************************************)
Fn1(k1, v1) == [x \in {k1} |-> v1]
Fn2(k1, v1, k2, v2) == [x \in {k1, k2} |-> IF x = k1 THEN v1 ELSE v2]
Fn3(k1, v1, k2, v2, k3, v3) ==
    [x \in {k1, k2, k3} |-> IF x = k1 THEN v1 ELSE IF x = k2 THEN v2 ELSE v3]

\* the value of the documentation example
DocValue ==
    Object(Fn3("code", PosInt(0, 200),
               "success", Bool(TRUE),
               "payload", Object(Fn1("features", Array(<<String("serde"), String("json")>>)))))

\* numbers of every representation, a key bound to null, nesting under an index
NumValue ==
    Object(Fn3("code", Float(15),
               "features", Null,
               "payload", Array(<<NegInt(-3),
                                  Object(Fn2("code", PosInt(1, 5), "features", Float(20)))>>)))

\* a root that is an array
ArrValue ==
    Array(<<Array(<<PosInt(0, 0), Bool(FALSE)>>),
            Object(Fn1("payload", String("payload")))>>)

Roots ==
    { [name |-> "value", tree |-> DocValue],
      [name |-> "doc", tree |-> NumValue],
      [name |-> "rows", tree |-> ArrValue] }

Literals ==
    { Key("payload"), Key("features"), Key("failure"), Key("code"),
      Idx(0), Idx(1), Idx(12) }

RECURSIVE Paths(_)
Paths(n) ==
    IF n = 0 THEN {<<>>}
    ELSE Paths(n - 1) \cup { Append(s, p) : s \in { q \in Paths(n - 1) : Len(q) = n - 1 }, p \in Literals }

Calls == Paths(MaxSegs) \ {<<>>}

stringify(expr) == expr.name

Pending == [pending |-> TRUE]

(***************************************************************************)
(* State.                                                                  *)
(***************************************************************************)
VARIABLES
    root,       \* the serde_json::Value the calls borrow
    label,      \* the text of the root expression
    segs,       \* $($path)=>+ of the call under expansion
    kind,       \* the kind after "; as", or Untyped
    pc,         \* "idle", "walking", "walked", "done"
    i,          \* number of segments already processed
    x,          \* _x, the Result carried through the chain
    base_path,  \* $base_path, the path text accumulated so far
    lookups,    \* positions of the segments on which get was called
    result,     \* the value of the macro call, Pending until it is done
    prev        \* the value of the preceding call when it had the same inputs

vars == <<root, label, segs, kind, pc, i, x, base_path, lookups, result, prev>>

Init ==
    /\ \E r \in Roots : root = r.tree /\ label = stringify(r)
    /\ segs = <<>>
    /\ kind = Untyped
    /\ pc = "idle"
    /\ i = 0
    /\ x = Ok(root)
    /\ base_path = label
    /\ lookups = <<>>
    /\ result = Pending
    /\ prev = Pending

\* json_nav!{ root => segs... [; as K] } is entered: _x = Ok(&root),
\* $base_path = stringify!(root)
Enter(s, K, p) ==
    /\ segs' = s
    /\ kind' = K
    /\ pc' = "walking"
    /\ i' = 0
    /\ x' = Ok(root)
    /\ base_path' = label
    /\ lookups' = <<>>
    /\ result' = Pending
    /\ prev' = p
    /\ UNCHANGED <<root, label>>

\* a call site with new segments and kind
Call ==
    /\ pc = "idle"
    /\ \E s \in Calls, K \in Kinds \cup {Untyped} : Enter(s, K, Pending)

\* faulty variant: the accumulated path text survives into the next evaluation
Recall_keep_path ==
    /\ pc = "done"
    /\ pc' = "walking"
    /\ i' = 0
    /\ x' = Ok(root)
    /\ lookups' = <<>>
    /\ result' = Pending
    /\ prev' = result
    /\ UNCHANGED <<root, label, segs, kind, base_path>>

\* the same call site evaluated again
Recall ==
    /\ pc = "done"
    /\ Enter(segs, kind, result)

\* the value of the call is consumed; control reaches the next call site
Leave ==
    /\ pc = "done"
    /\ segs' = <<>>
    /\ kind' = Untyped
    /\ pc' = "idle"
    /\ i' = 0
    /\ x' = Ok(root)
    /\ base_path' = label
    /\ lookups' = <<>>
    /\ result' = Pending
    /\ prev' = Pending
    /\ UNCHANGED <<root, label>>

\* faulty variant: after a failure the walk goes on, looking the segment up
\* from the root
json_nav_internal_step_retry ==
    /\ pc = "walking"
    /\ i < Len(segs)
    /\ x' = json_nav_internal(IF x.ok THEN x ELSE Ok(root), base_path, segs[i + 1])
    /\ lookups' = Append(lookups, i + 1)
    /\ base_path' = concat(base_path, segs[i + 1])
    /\ i' = i + 1
    /\ pc' = IF i + 1 = Len(segs) THEN "walked" ELSE "walking"
    /\ UNCHANGED <<root, label, segs, kind, result, prev>>

\* faulty variant: the first lookup takes the value out of the root
\* (get_mut + Value::take), leaving Null in its place
json_nav_internal_step_take ==
    /\ pc = "walking"
    /\ i < Len(segs)
    /\ x' = json_nav_internal(x, base_path, segs[i + 1])
    /\ root' = IF i = 0 /\ x'.ok
               THEN IF segs[1].k = "key"
                    THEN [root EXCEPT !.o[segs[1].s] = Null]
                    ELSE [root EXCEPT !.a[segs[1].i + 1] = Null]
               ELSE root
    /\ lookups' = IF x.ok THEN Append(lookups, i + 1) ELSE lookups
    /\ base_path' = concat(base_path, segs[i + 1])
    /\ i' = i + 1
    /\ pc' = IF i + 1 = Len(segs) THEN "walked" ELSE "walking"
    /\ UNCHANGED <<label, segs, kind, result, prev>>

\* one expansion step of json_nav_internal: the and_then for segment i + 1
json_nav_internal_step ==
    /\ pc = "walking"
    /\ i < Len(segs)
    /\ x' = json_nav_internal(x, base_path, segs[i + 1])
    /\ lookups' = IF x.ok THEN Append(lookups, i + 1) ELSE lookups
    /\ base_path' = concat(base_path, segs[i + 1])
    /\ i' = i + 1
    /\ pc' = IF i + 1 = Len(segs) THEN "walked" ELSE "walking"
    /\ UNCHANGED <<root, label, segs, kind, result, prev>>

\* first arm of json_nav: the value of the chain is the value of the call
json_nav_untyped ==
    /\ pc = "walked"
    /\ kind = Untyped
    /\ result' = x
    /\ pc' = "done"
    /\ UNCHANGED <<root, label, segs, kind, i, x, base_path, lookups, prev>>

\* "; as K" arms of json_nav
json_nav_typed ==
    /\ pc = "walked"
    /\ kind \in Kinds
    /\ result' = json_nav_as(kind, x)
    /\ pc' = "done"
    /\ UNCHANGED <<root, label, segs, kind, i, x, base_path, lookups, prev>>

Next ==
    \/ Call
    \/ Recall
    \/ Leave
    \/ json_nav_internal_step
    \/ json_nav_untyped
    \/ json_nav_typed

Spec == Init /\ [][Next]_vars

\* a call that has started runs to completion
FairSpec ==
    Spec /\ WF_vars(json_nav_internal_step) /\ WF_vars(json_nav_untyped) /\ WF_vars(json_nav_typed)

TypeOK ==
    /\ pc \in {"idle", "walking", "walked", "done"}
    /\ i \in 0..Len(segs)
    /\ kind \in Kinds \cup {Untyped}

(***************************************************************************)
(* What the properties are stated against: the value tree read directly,   *)
(* without the Option/Result plumbing of the walk.                         *)
(***************************************************************************)
HasChild(v, p) ==
    \/ p.k = "key" /\ v.t = "object" /\ p.s \in DOMAIN v.o
    \/ p.k = "idx" /\ v.t = "array" /\ p.i + 1 \in DOMAIN v.a

Child(v, p) == IF p.k = "key" THEN v.o[p.s] ELSE v.a[p.i + 1]

\* number of leading segments of s that resolve from v
RECURSIVE Depth(_, _)
Depth(v, s) ==
    IF s = <<>> THEN 0
    ELSE IF HasChild(v, Head(s)) THEN 1 + Depth(Child(v, Head(s)), Tail(s))
    ELSE 0

\* the sub-value at the existing path s
RECURSIVE At(_, _)
At(v, s) == IF s = <<>> THEN v ELSE At(Child(v, Head(s)), Tail(s))

PathExists == Depth(root, segs) = Len(segs)

\* the text of a segment as it is read in a path
SegText(p) ==
    IF p.k = "key" THEN p.s
    ELSE CASE p.i = 0 -> "0" [] p.i = 1 -> "1" [] p.i = 12 -> "12"

RECURSIVE Dotted(_)
Dotted(s) == IF s = <<>> THEN "" ELSE "." \o SegText(Head(s)) \o Dotted(Tail(s))

\* lbl.s1.s2...sk
Join(lbl, s) == lbl \o Dotted(s)

\* the path text up to and including the first missing segment
MissingPath == Join(label, SubSeq(segs, 1, Depth(root, segs) + 1))

\* the JSON kinds a requested kind accepts
KindMatches(v, K) ==
    CASE K = "object" -> v.t = "object"
      [] K = "array" -> v.t = "array"
      [] K = "str" -> v.t = "string"
      [] K = "bool" -> v.t = "bool"
      [] K = "u64" -> v.t = "number" /\ v.n = "PosInt"
      [] K = "i64" -> v.t = "number" /\ (v.n = "NegInt" \/ (v.n = "PosInt" /\ v.hi = 0))
      [] K = "f64" -> v.t = "number"

\* the view of v as kind K, for a v that K accepts
View(v, K) ==
    CASE K = "object" -> [ty |-> "Map", o |-> v.o]
      [] K = "array" -> [ty |-> "Vec", a |-> v.a]
      [] K = "str" -> [ty |-> "str", s |-> v.s]
      [] K = "bool" -> [ty |-> "bool", b |-> v.b]
      [] K = "u64" -> [ty |-> "u64", hi |-> v.hi, lo |-> v.lo]
      [] K = "i64" -> [ty |-> "i64", lo |-> v.lo]
      [] K = "f64" -> [ty |-> "f64",
                        hi |-> IF v.n = "PosInt" THEN v.hi ELSE 0,
                        tenths |-> IF v.n = "Float" THEN v.tenths ELSE 10 * v.lo]

IsNavigation(r) == ~r.ok /\ r.e.e = "Navigation"
IsTypeMismatch(r) == ~r.ok /\ r.e.e = "TypeMismatch"

(***************************************************************************)
(* C1: when the first missing segment is at position k, the walk ends in   *)
(* Err(Navigation) whose path is the root label joined by '.' with the     *)
(* segments up to and including k, keys as their text and indices in       *)
(* decimal; the untyped call returns exactly that error.                   *)
(***************************************************************************)
C1_NavigationPath ==
    (pc \in {"walked", "done"} /\ ~PathExists) =>
        /\ x = Err(Navigation(MissingPath))
        /\ (pc = "done" /\ kind = Untyped) => result = Err(Navigation(MissingPath))

C1_Witness ==
    /\ pc = "done" /\ kind = Untyped
    /\ root = DocValue
    /\ segs = <<Key("payload"), Key("failure")>>
    /\ result = Err(Navigation("value.payload.failure"))

(***************************************************************************)
(* C2: for a non-empty segment sequence that describes an existing path,   *)
(* the untyped call returns Ok with the sub-value found by applying the    *)
(* lookups one after the other from the root, whatever its kind, a present *)
(* null included.                                                          *)
(***************************************************************************)
C2_ExistingPath ==
    (pc = "done" /\ kind = Untyped /\ PathExists) =>
        /\ Len(segs) >= 1
        /\ result = Ok(At(root, segs))

C2_Witness ==
    /\ pc = "done" /\ kind = Untyped
    /\ root = NumValue
    /\ segs = <<Key("features")>>
    /\ result = Ok(Null)

(***************************************************************************)
(* C3: a typed call whose navigation reached a value, at whatever depth,   *)
(* returns Ok with the view of that value when the value's kind is the     *)
(* requested one, and TypeMismatch naming the requested kind otherwise.    *)
(***************************************************************************)
C3_TypedExtraction ==
    (pc = "done" /\ kind \in Kinds /\ PathExists) =>
        LET v == At(root, segs) IN
        /\ result.ok <=> KindMatches(v, kind)
        /\ result.ok => result = Ok(View(v, kind))
        /\ ~result.ok => result = Err(TypeMismatch(kind))

C3_Witness ==
    /\ pc = "done" /\ kind = "object"
    /\ root = DocValue
    /\ segs = <<Key("payload"), Key("features"), Idx(1)>>
    /\ result = Err(TypeMismatch("object"))

(***************************************************************************)
(* C4: segments are looked up in the order given and the walk              *)
(* short-circuits: the positions looked up are 1, 2, ..., m with no gap,   *)
(* a failure at position k leaves k the last position ever looked up, and  *)
(* the error path ends at segment k.                                       *)
(***************************************************************************)
C4_ShortCircuit ==
    /\ lookups = [j \in 1..Len(lookups) |-> j]
    /\ Len(lookups) <= i
    /\ (pc \in {"walking", "walked", "done"} /\ x.ok) => Len(lookups) = i
    /\ (pc \in {"walking", "walked", "done"} /\ ~x.ok) =>
          /\ Len(lookups) = Depth(root, segs) + 1
          /\ x.e.path = Join(label, SubSeq(segs, 1, Len(lookups)))

C4_Witness ==
    /\ pc = "walked"
    /\ root = DocValue
    /\ segs = <<Key("failure"), Key("payload"), Key("features")>>
    /\ lookups = <<1>>
    /\ x = Err(Navigation("value.failure"))

(***************************************************************************)
(* C5: a lookup fails exactly when the key is absent from the current      *)
(* object, the index is out of bounds of the current array, or the current *)
(* value is not indexable by that kind of segment; a failed lookup gives   *)
(* the Navigation error at that segment.                                   *)
(***************************************************************************)
KeyAbsent(v, p) == p.k = "key" /\ v.t = "object" /\ p.s \notin DOMAIN v.o
IndexOutOfBounds(v, p) == p.k = "idx" /\ v.t = "array" /\ p.i >= Len(v.a)
NotIndexable(v, p) ==
    \/ p.k = "key" /\ v.t \in {"array", "string", "number", "bool", "null"}
    \/ p.k = "idx" /\ v.t \in {"object", "string", "number", "bool", "null"}

C5_LookupFailure ==
    [][(pc = "walking" /\ x.ok) =>
          LET v == x.v
              p == segs[i + 1]
          IN  /\ ~x'.ok <=> (KeyAbsent(v, p) \/ IndexOutOfBounds(v, p) \/ NotIndexable(v, p))
              /\ ~x'.ok => x' = Err(Navigation(Join(label, SubSeq(segs, 1, i + 1))))
              /\ x'.ok => x' = Ok(Child(v, p))]_vars

C5_Witness ==
    /\ pc = "walked"
    /\ root = ArrValue
    /\ segs = <<Idx(1), Key("payload"), Idx(0)>>
    /\ lookups = <<1, 2, 3>>
    /\ x = Err(Navigation("rows.1.payload.0"))

(***************************************************************************)
(* C6: a number that is a non-negative integer satisfies "as u64"; a       *)
(* number with a fractional component satisfies "as f64" only, "as u64"    *)
(* and "as i64" giving TypeMismatch with expected "u64" and "i64".         *)
(***************************************************************************)
NonNegativeInteger(v) == v.t = "number" /\ v.n = "PosInt"
Fractional(v) == v.t = "number" /\ v.n = "Float" /\ v.tenths % 10 # 0

C6_NumericKinds ==
    (pc = "done" /\ kind \in {"u64", "i64", "f64"} /\ PathExists) =>
        LET v == At(root, segs) IN
        /\ (NonNegativeInteger(v) /\ kind = "u64") => result.ok
        /\ (Fractional(v) /\ kind = "f64") => result.ok
        /\ (Fractional(v) /\ kind = "u64") => result = Err(TypeMismatch("u64"))
        /\ (Fractional(v) /\ kind = "i64") => result = Err(TypeMismatch("i64"))

C6_Witness ==
    /\ pc = "done" /\ kind = "u64"
    /\ root = NumValue
    /\ segs = <<Key("code")>>
    /\ result = Err(TypeMismatch("u64"))

C9_TypedAfterNavigation ==
    (pc = "done" /\ kind \in Kinds) =>
        /\ ~x.ok => (result = x /\ IsNavigation(result))
        /\ ~PathExists => result = Err(Navigation(MissingPath))
        /\ IsTypeMismatch(result) => (x.ok /\ PathExists)

C9_Witness ==
    /\ pc = "done" /\ kind = "str"
    /\ root = DocValue
    /\ segs = <<Key("payload"), Key("failure")>>
    /\ result = Err(Navigation("value.payload.failure"))

(***************************************************************************)
(* C10: a call over n >= 1 segments reaches done after at most n lookups:  *)
(* every segment is looked up at most once, the walk only moves forward,   *)
(* a failed walk keeps its error to the end, and the call terminates.      *)
(***************************************************************************)
C10_Terminates ==
    /\ [](/\ Len(lookups) <= Len(segs)
          /\ \A j, k \in DOMAIN lookups : j < k => lookups[j] < lookups[k]
          /\ pc = "done" => (i = Len(segs) /\ Len(segs) >= 1 /\ result # Pending))
    /\ [][pc = "walking" => (i' = i + 1 /\ segs' = segs)]_vars
    /\ [][(pc = "walking" /\ ~x.ok) => x' = x]_vars
    /\ [][(pc = "walked" /\ ~x.ok) => result' = x]_vars
    /\ (pc = "walking" ~> pc = "done")

C10_Witness ==
    /\ pc = "done"
    /\ Len(segs) = 3
    /\ lookups = <<1>>
    /\ IsNavigation(result)
====
